---------------------------- MODULE Spec2Model ----------------------------
(***************************************************************************)
(* Model of the netlog protocol of cuckoo-linux:                           *)
(*   - the receiver, BsonParser.__iter__ (src/lib/cuckoo/common/netlog.py) *)
(*   - the sender, ResultLogger.loq      (src/analyzer/linux/lib/core/     *)
(*     netlog.py)                                                          *)
(*                                                                         *)
(* Python values are tagged records so that values of different Python     *)
(* types can live in one collection:                                       *)
(*   [ty |-> "int", n]  [ty |-> "int64", n]  [ty |-> "str", s]             *)
(*   [ty |-> "unicode", s]  [ty |-> "str", hex]  [ty |-> "list", items]    *)
(*   [ty |-> "none"]                                                       *)
(* A value [ty |-> "str", hex |-> ds] is the byte string "0x" followed by  *)
(* the hexadecimal digits ds (what "0x%08x" % v produces).                 *)
(***************************************************************************)
EXTENDS Integers, Sequences, FiniteSets, TLC

PyNone == [ty |-> "none"]
\* a Python int/long n, |n| < 2^47, kept as two limbs: n = hi * 65536 + lo
PyInt(n) == [ty |-> "int", hi |-> n \div 65536, lo |-> n % 65536]
\* a bson.int64.Int64
PyInt64(n) == [ty |-> "int64", hi |-> n \div 65536, lo |-> n % 65536]
PyStr(s) == [ty |-> "str", s |-> s]
PyUni(s) == [ty |-> "unicode", s |-> s]
PyHex(ds) == [ty |-> "str", hex |-> ds]
PyList(items) == [ty |-> "list", items |-> items]

IsInt(v) == v.ty \in {"int", "int64"}

\* dict.get(key, default) on a decoded document
Get(d, k, default) == IF k \in DOMAIN d THEN d[k] ELSE default

\* {} : the empty dict
EmptyMap == [k \in {} |-> PyNone]

\* d[k] = v on a dict
Put(d, k, v) == [x \in DOMAIN d \cup {k} |-> IF x = k THEN v ELSE d[x]]

\* the dict d without the keys ks (dict.pop)
Without(d, ks) == [x \in DOMAIN d \ ks |-> d[x]]

Min(a, b) == IF a < b THEN a ELSE b

(***************************************************************************)
(* Bounds of the model.                                                    *)
(***************************************************************************)
\* frames in the receiver's input stream
MaxFrames == 3

\* iterations of one parser after the first
MaxPasses == 1

(***************************************************************************)
(* Program constants.                                                      *)
(***************************************************************************)
\* 20 * 1024 * 1024
MAX_MESSAGE_LENGTH == 20971520

\* fd.read(4): the width of the length prefix
PrefixLen == 4

(***************************************************************************)
(* Type converters.                                                        *)
(***************************************************************************)
\* "%04x" % limb : the 4 hexadecimal digits of a 16-bit limb
Hex4(limb) == << (limb \div 4096) % 16, (limb \div 256) % 16,
                 (limb \div 16) % 16, limb % 16 >>

\* "0x%016x" % (v % 2**64)  for an Int64, else  "0x%08x" % (v % 2**32)
pointer_converter(v) ==
    IF v.ty = "int64"
    THEN PyHex(Hex4(((v.hi \div 65536) \div 65536) % 65536)
               \o Hex4((v.hi \div 65536) % 65536)
               \o Hex4(v.hi % 65536) \o Hex4(v.lo))
    ELSE PyHex(Hex4(v.hi % 65536) \o Hex4(v.lo))

default_converter(v) ==
    IF v.ty = "int64" THEN v
    ELSE IF v.ty = "int" /\ v.hi < 0
         THEN [ty |-> "int", hi |-> v.hi % 65536, lo |-> v.lo]
    ELSE IF v.ty = "str" THEN [v EXCEPT !.ty = "unicode"]
    ELSE v

\* TYPECONVERTERS.get(tag, None), replaced by default_converter when absent
ConverterFor(tag) == IF tag = "p" THEN "p" ELSE "default"

\* converters[i](args[i])
Convert(c, v) == IF c = "p" THEN pointer_converter(v) ELSE default_converter(v)

IsPair(i) == i.ty = "list"

\* check_names_for_typeinfo(arginfo): argnames
ArgNames(arginfo) ==
    [k \in 1..Len(arginfo) |->
        IF IsPair(arginfo[k]) THEN arginfo[k].items[1].s ELSE arginfo[k].s]

\* check_names_for_typeinfo(arginfo): converters
Converters(arginfo) ==
    [k \in 1..Len(arginfo) |->
        IF IsPair(arginfo[k]) THEN ConverterFor(arginfo[k].items[2].s)
        ELSE "default"]


(***************************************************************************)
(* The receiver's input.  A byte stream is described by the frames the     *)
(* parser's reads cut it into: the bytes of the length prefix that are     *)
(* present (hdr, fewer than 4 only where the stream ends), the number of   *)
(* body bytes present after them (have), and what bson_decode makes of the *)
(* frame: the document doc, or an exception when valid is FALSE.           *)
(***************************************************************************)
\* struct.pack("I", n): little-endian unsigned 32 bit
Pack(n) == << n % 256, (n \div 256) % 256, (n \div 65536) % 256,
              (n \div 16777216) % 256 >>

\* struct.unpack("I", data)[0]
Unpack(h) == h[1] + 256 * h[2] + 65536 * h[3] + 16777216 * h[4]

Frame(doc, n) == [hdr |-> Pack(n), have |-> n - PrefixLen, doc |-> doc,
                  valid |-> TRUE]

\* the first keep bytes of frame f
CutFrame(f, keep) ==
    IF keep < PrefixLen
    THEN [f EXCEPT !.hdr = SubSeq(f.hdr, 1, keep), !.have = 0]
    ELSE [f EXCEPT !.have = keep - PrefixLen]

FrameBytes(f) == Len(f.hdr) + f.have

InfoDoc(i, name, category, args) ==
    [type |-> "info", I |-> i, name |-> name, category |-> category,
     args |-> args]

DataDoc(i, tid, t, args) == [I |-> i, T |-> tid, t |-> t, args |-> args]

DebugDoc(msg) == [type |-> "debug", msg |-> msg]

BufferDoc(b, sha1) == [type |-> "buffer", buffer |-> b, checksum |-> sha1]

\* hashlib.sha1(buf).hexdigest() on the payloads of the model
Sha1Hex(b) ==
    CASE b = "" -> "da39a3ee5e6b4b0d3255bfef95601890afd80709"
      [] b = "a" -> "86f7e437faa5a7fce15d1ddcb9eaeaea377667b8"
      [] OTHER -> "e9d71f5ee7c92d6dc9e92ffdad17b8bd49418f98"

\* the encoded length of the small documents of the model
SmallLen == 6

CreateFileInfo ==
    Frame(InfoDoc(5, "CreateFileW", "filesystem",
                  << PyUni("is_success"), PyUni("retval"),
                     PyUni("lpFileName") >>), SmallLen)

InfoFrames ==
    { CreateFileInfo,
      Frame(InfoDoc(5, "NtClose", "system",
                    << PyUni("retval"), PyUni("is_success"),
                       PyList(<< PyUni("Handle"), PyUni("p") >>) >>), SmallLen),
      Frame(InfoDoc(7, "__process__", "none",
                    << PyUni("TimeStamp"), PyUni("ProcessIdentifier"),
                       PyUni("ParentProcessIdentifier"),
                       PyUni("ModulePath") >>), SmallLen),
      Frame(InfoDoc(8, "__thread__", "none",
                    << PyUni("ProcessIdentifier") >>), SmallLen),
      Frame(InfoDoc(8, "__thread__", "none",
                    << PyUni("ThreadIdentifier") >>), SmallLen),
      Frame(InfoDoc(8, "__process__", "none",
                    << PyUni("ProcessIdentifier") >>), SmallLen) }

CreateFileData ==
    Frame(DataDoc(5, 11, 1, << PyInt(1), PyInt(0), PyStr("C:\\a.txt") >>),
          SmallLen)

DataFrames ==
    { CreateFileData,
      Frame(DataDoc(5, 12, 2, << PyInt(-1), PyInt(0), PyInt(-2) >>), SmallLen),
      Frame(DataDoc(5, 13, 3, << PyInt(1), PyInt(0) >>), SmallLen),
      Frame(DataDoc(7, 15, 5, << PyInt64(1400000000), PyInt(1234), PyInt(1),
                                 PyUni("/bin/ls") >>), SmallLen),
      Frame(DataDoc(8, 16, 6, << PyInt(4321) >>), SmallLen) }

SmallDebug == Frame(DebugDoc("hi"), SmallLen)

OtherFrames ==
    { SmallDebug,
      Frame(BufferDoc("a", Sha1Hex("a")), SmallLen),
      Frame(BufferDoc("a", Sha1Hex("")), SmallLen) }

\* the frames of the streams the handlers are checked on
FrameSet == InfoFrames \cup DataFrames \cup OtherFrames

\* the frames of the streams the framing is checked on: the largest frame
\* allowed, one byte more, and a body that bson_decode rejects
FramingSet ==
    { SmallDebug, CreateFileInfo, CreateFileData,
      Frame(DebugDoc("big"), MAX_MESSAGE_LENGTH),
      Frame(DebugDoc("huge"), MAX_MESSAGE_LENGTH + 1),
      [Frame(DebugDoc("garbled"), SmallLen) EXCEPT !.valid = FALSE] }

\* info messages for index 5, name open, whose flag argument access comes as
\* a plain value or as a pointer: with both flag tables, with the bitmask
\* table only, with the value table only, with no table; a table is, per
\* argument, a list of (value, symbol) pairs
FlagInfos ==
    LET names == << PyUni("is_success"), PyUni("retval"), PyUni("access") >>
        pointer == << PyUni("is_success"), PyUni("retval"),
                      PyList(<< PyUni("access"), PyUni("p") >>) >>
        values == [access |-> << << 1, "READONLY" >> >>]
        masks == [access |-> << << 1, "READ" >>, << 2, "WRITE" >> >>]
    IN  { Frame([type |-> "info", I |-> 5, name |-> "open",
                 category |-> "filesystem", args |-> names,
                 flags_value |-> values, flags_bitmask |-> masks], SmallLen),
          Frame([type |-> "info", I |-> 5, name |-> "open",
                 category |-> "filesystem", args |-> pointer,
                 flags_bitmask |-> masks], SmallLen),
          Frame([type |-> "info", I |-> 5, name |-> "open",
                 category |-> "filesystem", args |-> names,
                 flags_value |-> values], SmallLen),
          Frame(InfoDoc(5, "open", "files", names), SmallLen) }

\* calls of open with access 3, 1 and 4
FlagData ==
    { Frame(DataDoc(5, 21, 1, << PyInt(1), PyInt(0), PyInt(a) >>), SmallLen) :
        a \in {3, 1, 4} }

\* the frames of the streams the flags are checked on
FlagSet == FlagInfos \cup FlagData

\* info messages for a process in the PascalCase and in the snake_case
\* layout, for a thread, and for an api
ProcessInfos ==
    { Frame(InfoDoc(7, "__process__", "none",
                    << PyUni("TimeLow"), PyUni("TimeHigh"),
                       PyUni("ProcessIdentifier"),
                       PyUni("ParentProcessIdentifier"),
                       PyUni("ModulePath") >>), SmallLen),
      Frame(InfoDoc(9, "__process__", "none",
                    << PyUni("time_low"), PyUni("time_high"), PyUni("pid"),
                       PyUni("ppid"), PyUni("module_path") >>), SmallLen),
      Frame(InfoDoc(8, "__thread__", "none",
                    << PyUni("ProcessIdentifier") >>), SmallLen),
      CreateFileInfo }

\* two processes in the first layout, the first of them again in the second
\* layout, a thread and a call
ProcessData ==
    { Frame(DataDoc(7, 31, 1, << PyInt(10), PyInt(1), PyInt(1234), PyInt(1),
                                 PyUni("C:\\Windows\\cmd.exe") >>), SmallLen),
      Frame(DataDoc(9, 31, 1, << PyInt(10), PyInt(1), PyInt(1234), PyInt(1),
                                 PyUni("C:\\Windows\\cmd.exe") >>), SmallLen),
      Frame(DataDoc(7, 32, 2, << PyInt(20), PyInt(1), PyInt(5678), PyInt(1234),
                                 PyUni("/bin/ls") >>), SmallLen),
      Frame(DataDoc(8, 33, 3, << PyInt(4321) >>), SmallLen),
      CreateFileData }

\* where a stream may end inside frame f: after any byte of a small frame,
\* and inside the prefix or one byte short for a large one
CutPoints(f) ==
    { k \in 1..(PrefixLen + 2) \cup {FrameBytes(f) - 1} : k < FrameBytes(f) }

\* prefixes that declare less than their own four bytes, with the two
\* outcomes of bson_decode on them: the decoder of pymongo raises; the loads
\* decoder looks only for a zero at byte n - 1 and returns the empty
\* document
ShortFrames ==
    { [hdr |-> Pack(n), have |-> 0, doc |-> EmptyMap, valid |-> v] :
        n \in 0..(PrefixLen - 1), v \in BOOLEAN } \
    { [hdr |-> Pack(1), have |-> 0, doc |-> EmptyMap, valid |-> TRUE] }

\* the frames of the streams short lengths are checked on
ShortSet == ShortFrames \cup { SmallDebug, CreateFileInfo, CreateFileData }

\* the streams of at most MaxFrames whole frames of S
Streams(S) == UNION { [1..n -> S] : n \in 0..MaxFrames }

\* two info messages and then at most MaxFrames other messages
ProcessStreams ==
    { << i1, i2 >> \o ds :
        i1 \in ProcessInfos, i2 \in ProcessInfos, ds \in Streams(ProcessData) }

\* the streams of Streams(S) that end inside their last frame
CutStreams(S) ==
    UNION { { [fs EXCEPT ![Len(fs)] = CutFrame(fs[Len(fs)], k)] :
                k \in CutPoints(fs[Len(fs)]) } :
            fs \in Streams(S) \ { << >> } }

(***************************************************************************)
(* State.                                                                  *)
(*   fd, fdkind     the parser's stream and whether it is the live         *)
(*                  ResultHandler or a stored log file                     *)
(*   pos            the read cursor of fd, as the number of the next frame *)
(*   infomap, flags_value, flags_bitmask, pid     BsonParser's fields      *)
(*   rpc            where __iter__ is: "new", "loop", "returned", "raised" *)
(*   out            the records yielded, each with the number of the frame *)
(*                  it was decoded from                                    *)
(*   earlier        the records of each earlier iteration of the parser    *)
(*   sink           the files written under <storagepath>/buffer           *)
(*   logged         the messages logged by the parser                      *)
(***************************************************************************)
VARIABLES fd, fdkind, pos, infomap, flags_value, flags_bitmask, pid, rpc,
          out, sink, logged, earlier

rvars == << fd, fdkind, pos, infomap, flags_value, flags_bitmask, pid, rpc,
            out, sink, logged, earlier >>

(***************************************************************************)
(* Sender state.                                                           *)
(*   send_lock         the thread holding self.send_lock, 0 when free      *)
(*   logtbl_explained  the list of 512 marks                               *)
(*   spid              self.pid                                            *)
(*   broken            the peer has gone: socket.send returns 0            *)
(*   wire              the bytes handed to the socket, each with the frame *)
(*                     it belongs to and its offset in that frame          *)
(*   tpc, call, buf, total   per thread: where it is in loq, the arguments *)
(*                     of the call, and buf and total of log_raw_direct    *)
(*   texc              per thread: the exception that ended its last call  *)
(*   emits             the calls made so far                               *)
(*   locks             the number of times the lock was taken; the call    *)
(*                     that took it for the n-th time has no = n           *)
(***************************************************************************)
VARIABLES send_lock, logtbl_explained, spid, broken, wire, tpc, call, buf,
          total, texc, emits, locks

svars == << send_lock, logtbl_explained, spid, broken, wire, tpc, call, buf,
            total, texc, emits, locks >>

\* BsonParser.__init__
ParserInit ==
    /\ pos = 1
    /\ infomap = EmptyMap
    /\ flags_value = EmptyMap
    /\ flags_bitmask = EmptyMap
    /\ pid = PyNone
    /\ rpc = "new"
    /\ out = << >>
    /\ sink = << >>
    /\ logged = << >>
    /\ earlier = << >>

InitRecv(streams) ==
    /\ fd \in streams
    /\ fdkind \in {"ResultHandler", "file"}
    /\ ParserInit

\* self.fd.seek(0)
IterStart ==
    /\ rpc = "new"
    /\ rpc' = "loop"
    /\ pos' = 1
    /\ UNCHANGED << fd, fdkind, infomap, flags_value, flags_bitmask, pid, out,
                    sink, logged, earlier >>
    /\ UNCHANGED svars

\* iter(parser) once more, after the generator has ended: the cursor goes back
\* to the start, the fields of the parser stay
Reiterate ==
    /\ rpc = "returned"
    /\ Len(earlier) < MaxPasses
    /\ rpc' = "loop"
    /\ pos' = 1
    /\ earlier' = Append(earlier, out)
    /\ out' = << >>
    /\ UNCHANGED << fd, fdkind, infomap, flags_value, flags_bitmask, pid, sink,
                    logged >>
    /\ UNCHANGED svars

(***************************************************************************)
(* One pass of the while loop, up to the decoded document.                 *)
(***************************************************************************)
\* data = self.fd.read(4)
data4 == IF pos <= Len(fd) THEN fd[pos].hdr ELSE << >>

blen == Unpack(data4)

\* a faulty variant, for comparison: the limit itself is too large
TooLarge_AtLimit(n) == n >= MAX_MESSAGE_LENGTH

TooLarge(n) == n > MAX_MESSAGE_LENGTH

\* the bytes of the stream after frame j
RECURSIVE RestBytes(_)
RestBytes(j) ==
    IF j >= Len(fd) THEN 0 ELSE FrameBytes(fd[j + 1]) + RestBytes(j + 1)

\* self.fd.read(blen-4) with a negative count: a file object reads all that
\* is left of the file; the handler's read loops while it has less than the
\* count and so reads nothing
ReadsRest == blen < PrefixLen /\ fdkind = "file"

\* len(data) after  data += self.fd.read(blen-4)
datalen ==
    Len(data4) + (IF blen >= PrefixLen THEN Min(blen - PrefixLen, fd[pos].have)
                  ELSE IF ReadsRest THEN RestBytes(pos)
                  ELSE 0)

\* a faulty variant, for comparison: the body is never found short
LackingBody_Never(got, n) == FALSE

LackingBody(got, n) == got < n

\* the frame was read whole and within the size limit
FrameRead ==
    /\ rpc = "loop"
    /\ Len(data4) = PrefixLen
    /\ ~TooLarge(blen)
    /\ ~LackingBody(datalen, blen)

\* dec = bson_decode(data)
Decoded == FrameRead /\ fd[pos].valid

dec == fd[pos].doc

mtype == Get(dec, "type", "none")

index == Get(dec, "I", -1)

Log(msg) == Append(logged, msg)

\* return: the generator ends
Return(msg) ==
    /\ rpc' = "returned"
    /\ logged' = IF msg = "" THEN logged ELSE Log(msg)
    /\ UNCHANGED << fd, fdkind, pos, infomap, flags_value, flags_bitmask, pid,
                    out, sink, earlier >>
    /\ UNCHANGED svars

\* if not data: return
EndOfStream ==
    /\ rpc = "loop"
    /\ Len(data4) = 0
    /\ Return("")

\* if not len(data) == 4: return
ShortPrefix ==
    /\ rpc = "loop"
    /\ Len(data4) # 0
    /\ Len(data4) # PrefixLen
    /\ Return("BsonParser lacking data.")

\* if blen > MAX_MESSAGE_LENGTH: return
Oversized ==
    /\ rpc = "loop"
    /\ Len(data4) = PrefixLen
    /\ TooLarge(blen)
    /\ Return("BSON message larger than MAX_MESSAGE_LENGTH, stopping handler.")

\* if len(data) < blen: return
ShortBody ==
    /\ rpc = "loop"
    /\ Len(data4) = PrefixLen
    /\ ~TooLarge(blen)
    /\ LackingBody(datalen, blen)
    /\ Return("BsonParser lacking data.")

\* a faulty variant, for comparison: the frame is skipped
DecodeError_Skip ==
    /\ FrameRead
    /\ ~fd[pos].valid
    /\ pos' = pos + 1
    /\ logged' = Log("BsonParser decoding problem")
    /\ UNCHANGED << fd, fdkind, infomap, flags_value, flags_bitmask, pid, rpc,
                    out, sink, earlier >>
    /\ UNCHANGED svars

\* except Exception: return
DecodeError ==
    /\ FrameRead
    /\ ~fd[pos].valid
    /\ Return("BsonParser decoding problem")

(***************************************************************************)
(* The handlers of a decoded document.                                     *)
(***************************************************************************)
\* continue: on to the next frame
Continue ==
    /\ pos' = (IF ReadsRest THEN Len(fd) + 1 ELSE pos + 1)
    /\ rpc' = rpc
    /\ UNCHANGED earlier
    /\ UNCHANGED svars

\* dec.get("category")
Category(d) == IF "category" \in DOMAIN d THEN PyUni(d.category) ELSE PyNone

\* the tuple stored in self.infomap[index]
Descriptor(d) ==
    [name |-> Get(d, "name", "NONAME"),
     arginfo |-> Get(d, "args", << >>),
     argnames |-> ArgNames(Get(d, "args", << >>)),
     converters |-> Converters(Get(d, "args", << >>)),
     category |-> Category(d)]

\* dec.get("flags_value") / dec.get("flags_bitmask") is truthy
HasTable(d, k) == k \in DOMAIN d /\ d[k] # EmptyMap

StoreInfo(map, i, d) == Put(map, i, Descriptor(d))

\* dict(values) of a list of (value, symbol) pairs: of several pairs with
\* one value the last one stays
DictOf(pairs) ==
    [v \in { pairs[i][1] : i \in 1..Len(pairs) } |->
        LET i == CHOOSE i \in 1..Len(pairs) :
                    /\ pairs[i][1] = v
                    /\ \A j \in 1..Len(pairs) : pairs[j][1] = v => j <= i
        IN  pairs[i][2]]

\* self.flags_value[name][arg] = dict(values), for every arg of the table
ValueTables(tables) == [a \in DOMAIN tables |-> DictOf(tables[a])]

\* mtype == "info"
OnInfo ==
    /\ Decoded
    /\ mtype = "info"
    /\ infomap' = StoreInfo(infomap, index, dec)
    /\ flags_value' = IF HasTable(dec, "flags_value")
                      THEN Put(flags_value, Get(dec, "name", "NONAME"),
                               ValueTables(dec.flags_value))
                      ELSE flags_value
    /\ flags_bitmask' = IF HasTable(dec, "flags_bitmask")
                        THEN Put(flags_bitmask, Get(dec, "name", "NONAME"),
                                 dec.flags_bitmask)
                        ELSE flags_bitmask
    /\ Continue
    /\ UNCHANGED << fd, fdkind, pid, out, sink, logged >>

\* a faulty variant, for comparison: every checksum passes
ChecksumMismatch_Never(sha1, b) == FALSE

\* sha1 != hashlib.sha1(buf).hexdigest()
ChecksumMismatch(sha1, b) == sha1 # Sha1Hex(b)

\* isinstance(self.fd, ResultHandler)
Dumps(kind) == kind = "ResultHandler"

\* mtype == "buffer", wrong checksum
BufferRejected ==
    /\ Decoded
    /\ mtype = "buffer"
    /\ ChecksumMismatch(dec.checksum, dec.buffer)
    /\ logged' = Log("Incorrect sha1 passed along for a buffer.")
    /\ Continue
    /\ UNCHANGED << fd, fdkind, infomap, flags_value, flags_bitmask, pid, out,
                    sink >>

\* mtype == "buffer", right checksum
BufferAccepted ==
    /\ Decoded
    /\ mtype = "buffer"
    /\ ~ChecksumMismatch(dec.checksum, dec.buffer)
    /\ sink' = IF Dumps(fdkind)
               THEN Append(sink, [path |-> dec.checksum, data |-> dec.buffer,
                                  at |-> pos])
               ELSE sink
    /\ Continue
    /\ UNCHANGED << fd, fdkind, infomap, flags_value, flags_bitmask, pid, out,
                    logged >>

\* the fields every yielded record starts with
Parsed == [type |-> mtype, tid |-> Get(dec, "T", 0), time |-> Get(dec, "t", 0)]

\* r with r[k] = v
With(r, k, v) == [x \in DOMAIN r \cup {k} |-> IF x = k THEN v ELSE r[x]]

\* a faulty variant, for comparison: the newest record comes first
Emit_Front(seq, rec) == << [at |-> pos, rec |-> rec] >> \o seq

Emit(seq, rec) == Append(seq, [at |-> pos, rec |-> rec])

\* yield parsed
Yield(rec) == out' = Emit(out, rec) /\ Continue

\* mtype == "debug"
OnDebug ==
    /\ Decoded
    /\ mtype = "debug"
    /\ logged' = Log("Debug message from monitor")
    /\ Yield(With(Parsed, "message", Get(dec, "msg", "")))
    /\ UNCHANGED << fd, fdkind, infomap, flags_value, flags_bitmask, pid,
                    sink >>

\* a regular api call message
IsCall == Decoded /\ mtype \notin {"info", "buffer", "debug"}

Known(i, map) == i \in DOMAIN map

\* a faulty variant, for comparison: an unknown index ends the generator
UnknownIndex_Fatal ==
    /\ IsCall
    /\ ~Known(index, infomap)
    /\ Return("Got API with unknown index")

\* if index not in self.infomap: continue
UnknownIndex ==
    /\ IsCall
    /\ ~Known(index, infomap)
    /\ logged' = Log("Got API with unknown index")
    /\ Continue
    /\ UNCHANGED << fd, fdkind, infomap, flags_value, flags_bitmask, pid, out,
                    sink >>

desc == infomap[index]

args == Get(dec, "args", << >>)

\* a faulty variant, for comparison: only too many values are a mismatch
CountMismatch_Over(a, names) == Len(a) > Len(names)

CountMismatch(a, names) == Len(a) # Len(names)

\* if len(args) != len(argnames): continue
ArgCountMismatch ==
    /\ IsCall
    /\ Known(index, infomap)
    /\ CountMismatch(args, desc.argnames)
    /\ logged' = Log("Inconsistent arg count (compared to arg names)")
    /\ Continue
    /\ UNCHANGED << fd, fdkind, infomap, flags_value, flags_bitmask, pid, out,
                    sink >>

\* the data frame matches its descriptor
Matched == IsCall /\ Known(index, infomap) /\ ~CountMismatch(args, desc.argnames)

\* a converter raises: pointer_converter applies % to a value that is no number
ConvertRaises(c, v) == c = "p" /\ ~IsInt(v)

\* a faulty variant, for comparison: the values are stored as they came
ArgDict_Raw(names, convs, a) ==
    [n \in {names[i] : i \in 1..Len(a)} |->
        a[CHOOSE i \in 1..Len(a) : names[i] = n]]

\* dict((argnames[i], converters[i](args[i])) for i in range(len(args))):
\* of several positions with one name the last one stays
ArgDict(names, convs, a) ==
    [n \in {names[i] : i \in 1..Len(a)} |->
        LET i == CHOOSE i \in 1..Len(a) :
                    /\ names[i] = n
                    /\ \A j \in 1..Len(a) : names[j] = n => j <= i
        IN  Convert(convs[i], a[i])]

argdict == ArgDict(desc.argnames, desc.converters, args)

Raise ==
    /\ rpc' = "raised"
    /\ UNCHANGED << fd, fdkind, pos, infomap, flags_value, flags_bitmask, pid,
                    out, sink, logged, earlier >>
    /\ UNCHANGED svars

\* the exception of a converter leaves __iter__
ConvertError ==
    /\ Matched
    /\ \E i \in 1..Len(args) : ConvertRaises(desc.converters[i], args[i])
    /\ Raise

Converted ==
    /\ Matched
    /\ \A i \in 1..Len(args) : ~ConvertRaises(desc.converters[i], args[i])

\* which of the three layouts of a process record the arguments have
Layout(d) ==
    IF "TimeLow" \in DOMAIN d THEN "TimeLow"
    ELSE IF "time_low" \in DOMAIN d THEN "time_low"
    ELSE IF "TimeStamp" \in DOMAIN d THEN "TimeStamp"
    ELSE "unknown"

\* the keys the branch of a layout reads
LayoutKeys(d) ==
    CASE Layout(d) = "TimeLow" ->
            {"TimeLow", "TimeHigh", "ProcessIdentifier",
             "ParentProcessIdentifier", "ModulePath"}
      [] Layout(d) = "time_low" ->
            {"time_low", "time_high", "module_path"} \cup
            (IF "pid" \in DOMAIN d THEN {"pid", "ppid"}
             ELSE {"process_identifier", "parent_process_identifier"})
      [] Layout(d) = "TimeStamp" ->
            {"TimeStamp", "ProcessIdentifier", "ParentProcessIdentifier",
             "ModulePath"}
      [] OTHER -> {}

\* a faulty variant, for comparison: the snake_case layout reads the parent
ProcPid_Swapped(d) ==
    CASE Layout(d) = "time_low" ->
            IF "pid" \in DOMAIN d THEN d["ppid"]
            ELSE d["parent_process_identifier"]
      [] OTHER -> d["ProcessIdentifier"]

ProcPid(d) ==
    CASE Layout(d) = "time_low" ->
            IF "pid" \in DOMAIN d THEN d["pid"] ELSE d["process_identifier"]
      [] OTHER -> d["ProcessIdentifier"]

ProcPpid(d) ==
    CASE Layout(d) = "time_low" ->
            IF "pid" \in DOMAIN d THEN d["ppid"]
            ELSE d["parent_process_identifier"]
      [] OTHER -> d["ParentProcessIdentifier"]

ProcPath(d) ==
    CASE Layout(d) = "time_low" -> d["module_path"]
      [] OTHER -> d["ModulePath"]

\* datetime.datetime.fromtimestamp(vmtimeunix), kept as the clock reading it
\* is computed from: a FILETIME in two halves, or milliseconds since 1970
FirstSeen(d) ==
    CASE Layout(d) = "TimeLow" ->
            [filetime |-> << d["TimeHigh"], d["TimeLow"] >>]
      [] Layout(d) = "time_low" ->
            [filetime |-> << d["time_high"], d["time_low"] >>]
      [] OTHER -> [millis |-> d["TimeStamp"]]

\* get_filename_from_path(modulepath): the last component of the path
get_filename_from_path(path) ==
    CASE path = PyUni("/bin/ls") -> PyUni("ls")
      [] path = PyUni("C:\\Windows\\cmd.exe") -> PyUni("cmd.exe")
      [] OTHER -> path

ProcessRecord(d) ==
    [type |-> "process", tid |-> Parsed.tid, time |-> Parsed.time,
     pid |-> ProcPid(d), ppid |-> ProcPpid(d), first_seen |-> FirstSeen(d),
     process_name |-> get_filename_from_path(ProcPath(d))]

\* a faulty variant, for comparison: the record is yielded, self.pid is kept
OnProcess_Unset ==
    /\ Converted
    /\ desc.name = "__process__"
    /\ Layout(argdict) # "unknown"
    /\ LayoutKeys(argdict) \subseteq DOMAIN argdict
    /\ Yield(ProcessRecord(argdict))
    /\ UNCHANGED << fd, fdkind, infomap, flags_value, flags_bitmask, pid, sink,
                    logged >>

\* apiname == "__process__", a known layout
OnProcess ==
    /\ Converted
    /\ desc.name = "__process__"
    /\ Layout(argdict) # "unknown"
    /\ LayoutKeys(argdict) \subseteq DOMAIN argdict
    /\ pid' = ProcPid(argdict)
    /\ Yield(ProcessRecord(argdict))
    /\ UNCHANGED << fd, fdkind, infomap, flags_value, flags_bitmask, sink,
                    logged >>

\* apiname == "__process__": raise CuckooResultError, or the KeyError of a
\* field the layout lacks
ProcessError ==
    /\ Converted
    /\ desc.name = "__process__"
    /\ \/ Layout(argdict) = "unknown"
       \/ ~(LayoutKeys(argdict) \subseteq DOMAIN argdict)
    /\ Raise

\* a faulty variant, for comparison: the thread gets the parser's pid
OnThread_Stamped ==
    /\ Converted
    /\ desc.name = "__thread__"
    /\ "ProcessIdentifier" \in DOMAIN argdict
    /\ Yield(With(Parsed, "pid", pid))
    /\ UNCHANGED << fd, fdkind, infomap, flags_value, flags_bitmask, pid, sink,
                    logged >>

\* apiname == "__thread__"
OnThread ==
    /\ Converted
    /\ desc.name = "__thread__"
    /\ "ProcessIdentifier" \in DOMAIN argdict
    /\ Yield(With(Parsed, "pid", argdict["ProcessIdentifier"]))
    /\ UNCHANGED << fd, fdkind, infomap, flags_value, flags_bitmask, pid, sink,
                    logged >>

\* apiname == "__thread__": the KeyError of argdict["ProcessIdentifier"]
ThreadError ==
    /\ Converted
    /\ desc.name = "__thread__"
    /\ "ProcessIdentifier" \notin DOMAIN argdict
    /\ Raise

\* argdict.pop("is_success", 1)
Status(d) == Get(d, "is_success", PyInt(1))

\* argdict.pop("retval", 0)
ReturnValue(d) == Get(d, "retval", PyInt(0))

\* argdict after the two pops
Arguments(d) == Without(d, {"is_success", "retval"})

\* int(s, 16) for the hexadecimal digits of a "0x..." string
RECURSIVE HexValue(_)
HexValue(ds) ==
    IF ds = << >> THEN 0
    ELSE 16 * HexValue(SubSeq(ds, 1, Len(ds) - 1)) + ds[Len(ds)]

\* a & b on numbers that are not negative
RECURSIVE BitAnd(_, _)
BitAnd(a, b) ==
    IF a = 0 \/ b = 0 THEN 0
    ELSE 2 * BitAnd(a \div 2, b \div 2) + (a % 2) * (b % 2)

\* the argument is a number or the "0x..." string of one
IsNumber(v) == IsInt(v) \/ "hex" \in DOMAIN v

\* value: int(argdict[argument], 16) for a str, else argdict[argument]
FlagValue(v) ==
    IF "hex" \in DOMAIN v THEN HexValue(v.hex) ELSE v.hi * 65536 + v.lo

\* the arguments that the value tables of apiname resolve
Resolved(apiname, d) ==
    { a \in DOMAIN flags_value[apiname] :
        /\ IsNumber(d[a])
        /\ FlagValue(d[a]) \in DOMAIN flags_value[apiname][a] }

\* the flags of the pairs with (value & key) == key, in the order of the table
RECURSIVE Matching(_, _)
Matching(pairs, value) ==
    IF pairs = << >> THEN << >>
    ELSE (IF BitAnd(value, pairs[1][1]) = pairs[1][1]
          THEN << pairs[1][2] >> ELSE << >>)
         \o Matching(Tail(pairs), value)

\* "|".join(symbols): a string is kept as the sequence of its pieces
RECURSIVE Join(_)
Join(symbols) ==
    IF symbols = << >> THEN << >>
    ELSE IF Len(symbols) = 1 THEN symbols
    ELSE << symbols[1], "|" >> \o Join(Tail(symbols))

\* an exception leaves resolve_flags: the KeyError of a name with no bitmask
\* table or of an argument the call does not have, the TypeError of a value
\* that cannot be hashed or masked
FlagsRaise(apiname, d) ==
    IF \E a \in DOMAIN flags_value[apiname] :
          IF a \in DOMAIN d THEN d[a].ty = "list" ELSE TRUE
    THEN TRUE
    ELSE IF apiname \notin DOMAIN flags_bitmask THEN TRUE
    ELSE \E a \in DOMAIN flags_bitmask[apiname] \ Resolved(apiname, d) :
            IF a \in DOMAIN d
            THEN ~IsNumber(d[a]) /\ flags_bitmask[apiname][a] # << >>
            ELSE TRUE

\* resolve_flags(apiname, argdict, flags): flags afterwards
resolve_flags(apiname, d) ==
    [a \in Resolved(apiname, d) \cup DOMAIN flags_bitmask[apiname] |->
        IF a \in Resolved(apiname, d)
        THEN << flags_value[apiname][a][FlagValue(d[a])] >>
        ELSE IF flags_bitmask[apiname][a] = << >> THEN << >>
        ELSE Join(Matching(flags_bitmask[apiname][a], FlagValue(d[a])))]

\* if apiname in self.flags_value
HasFlags(apiname) == apiname \in DOMAIN flags_value

ApiCallRecord(d) ==
    LET base == [type |-> "apicall", tid |-> Parsed.tid, time |-> Parsed.time,
                 pid |-> pid, api |-> desc.name, category |-> desc.category,
                 status |-> Status(d), return_value |-> ReturnValue(d),
                 arguments |-> Arguments(d),
                 flags |-> IF HasFlags(desc.name)
                           THEN resolve_flags(desc.name, Arguments(d))
                           ELSE EmptyMap,
                 stacktrace |-> Get(dec, "s", << >>),
                 uniqhash |-> Get(dec, "h", 0)]
    IN  IF "e" \in DOMAIN dec /\ "E" \in DOMAIN dec
        THEN With(With(base, "last_error", dec["e"]), "nt_status", dec["E"])
        ELSE base

\* any other apiname
OnApiCall ==
    /\ Converted
    /\ desc.name \notin {"__process__", "__thread__"}
    /\ HasFlags(desc.name) => ~FlagsRaise(desc.name, Arguments(argdict))
    /\ Yield(ApiCallRecord(argdict))
    /\ UNCHANGED << fd, fdkind, infomap, flags_value, flags_bitmask, pid, sink,
                    logged >>

\* any other apiname: the exception of resolve_flags leaves __iter__
FlagsError ==
    /\ Converted
    /\ desc.name \notin {"__process__", "__thread__"}
    /\ HasFlags(desc.name)
    /\ FlagsRaise(desc.name, Arguments(argdict))
    /\ Raise

(***************************************************************************)
(* The sender: ResultLogger.                                               *)
(***************************************************************************)
\* threads that call into one ResultLogger
NumThreads == 2

\* calls of loq and log_new_process in one run
MaxEmits == 2

\* for i in range(0,512): self.logtbl_explained.append(0)
TableSize == 512

Threads == 1..NumThreads

\* ptrace.syscall.SOCKET_SYSCALL_NAMES
SOCKET_SYSCALL_NAMES ==
    {"socket", "socketpair", "connect", "sendto", "recvfrom", "sendmsg",
     "recvmsg", "bind", "listen", "accept", "getsockname", "getpeername",
     "getsockopt", "setsockopt", "shutdown"}

SOCKET_SYSCALL_FILESYSTEM_NAMES ==
    {"read", "write", "open", "close", "stat", "fstat", "lstat", "poll",
     "lseek", "access", "mkdir", "rename", "rmdir", "creat", "link", "unlink",
     "symlink", "readlink", "chmod", "fchmod", "chown", "fchown", "lchown",
     "umask"}

SOCKET_SYSCALL_PROCESS_NAMES ==
    {"mmap", "mprotect", "brk", "clone", "fork", "vfork", "execve", "exit",
     "kill", "chdir", "fchdir", "sysinfo", "ptrace"}

\* "filename" in arg, for the texts of the model
HasFilename(text) == text \in {"filename", "oldfilename", "/tmp/filename"}

\* isinstance(arg, str) and "filename" in arg
IsFilenameArg(v) == v.ty = "str" /\ "s" \in DOMAIN v /\ HasFilename(v.s)

resolve_category(name, a) ==
    IF name \in SOCKET_SYSCALL_NAMES THEN "network"
    ELSE IF name \in SOCKET_SYSCALL_FILESYSTEM_NAMES THEN "filesystem"
    ELSE IF name \in SOCKET_SYSCALL_PROCESS_NAMES THEN "process"
    ELSE IF \E i \in 1..Len(a) : IsFilenameArg(a[i]) THEN "filesystem"
    ELSE "unkown"

\* log_convert_types(args): "l" for an int or long value, else "u"
log_convert_types(a) ==
    [i \in 1..(Len(a) \div 2) |-> IF IsInt(a[2 * i]) THEN "l" ELSE "u"]

\* args[get_key(i)] and args[get_value(i)], i counted from 0 as in the code;
\* the sequences of the model are counted from 1
get_key(i) == i * 2

get_value(i) == i * 2 + 1

\* args[k] raises IndexError
OutOfRange(a, k) == k + 1 > Len(a)

\* unicode(v)
ToUnicode(v) ==
    IF v.ty = "none" THEN PyUni("None")
    ELSE IF v.ty = "str" THEN [v EXCEPT !.ty = "unicode"]
    ELSE v

\* what bson_decode returns for an encoded value: an int that does not fit
\* 32 bits comes back as an Int64
Bson(v) ==
    IF IsInt(v)
    THEN [v EXCEPT !.ty = IF v.hi >= -32768 /\ v.hi < 32768 THEN "int"
                          ELSE "int64"]
    ELSE v

\* self.logtbl_explained[index] raises IndexError
NoSlot(i) == i >= TableSize \/ i < -TableSize

\* the element of the list that index i names: a negative index counts from
\* the end of the list
Slot(i) == IF i < 0 THEN i + TableSize ELSE i

\* the info frame of a call, or the IndexError of args[get_key(i)]
InfoFails(c) == \E i \in 0..(Len(c.fmt) - 1) : OutOfRange(c.args, get_key(i))

InfoBuf(c) ==
    [type |-> "info", I |-> c.index, name |-> c.name,
     category |-> resolve_category(c.name, c.args),
     args |-> << PyUni("is_success"), PyUni("retval") >> \o
              [i \in 1..Len(c.fmt) |-> ToUnicode(c.args[get_key(i - 1) + 1])]]

\* the data frame of a call, or the IndexError of args[get_value(i)]
DataFails(c) == \E i \in 0..(Len(c.fmt) - 1) : OutOfRange(c.args, get_value(i))

DataBuf(c, curpid, elapsed) ==
    [I |-> c.index, T |-> curpid, t |-> elapsed,
     args |-> << Bson(c.is_success), Bson(c.return_value) >> \o
              [i \in 1..Len(c.fmt) |->
                  IF c.fmt[i] = "l" THEN Bson(c.args[get_value(i - 1) + 1])
                  ELSE ToUnicode(c.args[get_value(i - 1) + 1])]]

\* the arguments of a call of loq; no is set when the call takes the lock
Call(i, name, fmt, a) ==
    [index |-> i, name |-> name, is_success |-> PyInt(1),
     return_value |-> PyInt(0), fmt |-> fmt, args |-> a, no |-> 0]

OpenArgs == << PyStr("filename"), PyStr("/etc/passwd"), PyStr("flags"), PyInt(0) >>

\* the calls of loq of the model: a syscall of the table, a name that
\* log_resolve_index does not know (-1), and an index past the table
LoqCalls ==
    { Call(2, "open", log_convert_types(OpenArgs), OpenArgs),
      Call(-1, "nosys", << "l" >>, << PyStr("arg0"), PyInt(7) >>),
      Call(TableSize, "x32call", << "l" >>, << PyStr("arg0"), PyInt(7) >>) }

\* long(round(time.time() * 1000))
NowMillis == [ty |-> "int", hi |-> 21362304, lo |-> 1000]

ProcessArgs(p, pp, path) ==
    << PyStr("TimeStamp"), NowMillis, PyStr("ProcessIdentifier"), PyInt(p),
       PyStr("ParentProcessIdentifier"), PyInt(pp), PyStr("ModulePath"), path >>

\* the call of loq that log_new_process makes
ProcessCall(p, pp, path) ==
    Call(511, "__process__", log_convert_types(ProcessArgs(p, pp, path)),
         ProcessArgs(p, pp, path))

NoCall == Call(0, "", << >>, << >>)

NoBuf == [doc |-> [type |-> "nothing"], by |-> 0, no |-> 0]

\* ResultLogger.__init__, connected by log_init
SenderInit ==
    /\ send_lock = 0
    /\ logtbl_explained = [i \in 0..(TableSize - 1) |-> 0]
    /\ spid = -1
    /\ broken = FALSE
    /\ wire = << >>
    /\ tpc = [t \in Threads |-> "idle"]
    /\ call = [t \in Threads |-> NoCall]
    /\ buf = [t \in Threads |-> NoBuf]
    /\ total = [t \in Threads |-> 0]
    /\ texc = [t \in Threads |-> "none"]
    /\ emits = 0
    /\ locks = 0

\* len(bson_encode(buf)) for the frames of the model
EncodedLen(frame) == SmallLen

\* thread t calls loq(index, name, is_success, return_value, fmt, args)
EnterLoq(t, c) ==
    /\ rpc = "off"
    /\ tpc[t] = "idle"
    /\ emits < MaxEmits
    /\ emits' = emits + 1
    /\ call' = [call EXCEPT ![t] = c]
    /\ tpc' = [tpc EXCEPT ![t] = "lock"]
    /\ texc' = [texc EXCEPT ![t] = "none"]
    /\ UNCHANGED << send_lock, logtbl_explained, broken, wire, buf, total,
                    locks >>
    /\ UNCHANGED rvars

CallLoq(t) == \E c \in LoqCalls : EnterLoq(t, c) /\ UNCHANGED spid

\* thread t calls loq with a fmt that announces an argument that args does
\* not hold
CallShort(t) ==
    EnterLoq(t, Call(3, "close", << "l" >>, << >>)) /\ UNCHANGED spid

\* thread t calls log_new_process(pid, ppid, path)
CallNewProcess(t) ==
    \E p \in {1234} :
        /\ spid' = p
        /\ EnterLoq(t, ProcessCall(p, 1, PyStr("/bin/ls")))

\* a faulty variant, for comparison: the lock excludes nobody
LockFree_Always(holder) == TRUE

\* the lock can be taken
LockFree(holder) == holder = 0

\* with self.send_lock:
Acquire(t) ==
    /\ tpc[t] = "lock"
    /\ LockFree(send_lock)
    /\ send_lock' = t
    /\ locks' = locks + 1
    /\ call' = [call EXCEPT ![t].no = locks + 1]
    /\ tpc' = [tpc EXCEPT ![t] = "check"]
    /\ UNCHANGED << logtbl_explained, spid, broken, wire, buf, total, texc,
                    emits >>
    /\ UNCHANGED rvars

\* self.logtbl_explained[index] == 0
Unexplained(tbl, i) == tbl[Slot(i)] = 0

\* a faulty variant, for comparison: the mark is never set
Mark_Forgotten(tbl, i) == tbl

\* self.logtbl_explained[index] = 1
Mark(tbl, i) == [tbl EXCEPT ![Slot(i)] = 1]

\* if self.logtbl_explained[index] == 0:
Check(t) ==
    /\ tpc[t] = "check"
    /\ tpc' = [tpc EXCEPT ![t] =
                  IF NoSlot(call[t].index) THEN "data" \* IndexError, caught
                  ELSE IF Unexplained(logtbl_explained, call[t].index)
                       THEN "explain"
                  ELSE "data"]
    /\ UNCHANGED << send_lock, logtbl_explained, spid, broken, wire, call, buf,
                    total, texc, emits, locks >>
    /\ UNCHANGED rvars

\* self.logtbl_explained[index] = 1, and the info frame is built
Explain(t) ==
    /\ tpc[t] = "explain"
    /\ logtbl_explained' = Mark(logtbl_explained, call[t].index)
    /\ IF InfoFails(call[t])
       THEN \* IndexError, caught
            /\ tpc' = [tpc EXCEPT ![t] = "data"]
            /\ UNCHANGED << buf, total >>
       ELSE /\ buf' = [buf EXCEPT ![t] = [doc |-> InfoBuf(call[t]),
                                          by |-> t, no |-> call[t].no]]
            /\ total' = [total EXCEPT ![t] = 0]
            /\ tpc' = [tpc EXCEPT ![t] = "send_info"]
    /\ UNCHANGED << send_lock, spid, broken, wire, call, texc, emits, locks >>
    /\ UNCHANGED rvars

\* the call ends: its local variables are gone
Leave(t) ==
    /\ tpc' = [tpc EXCEPT ![t] = "idle"]
    /\ call' = [call EXCEPT ![t] = NoCall]
    /\ buf' = [buf EXCEPT ![t] = NoBuf]
    /\ total' = [total EXCEPT ![t] = 0]

\* a faulty variant, for comparison: acquire() without a with or finally
Throw_Held(t, exc) ==
    /\ texc' = [texc EXCEPT ![t] = exc]
    /\ send_lock' = send_lock
    /\ Leave(t)

\* the exception leaves loq: the with statement releases the lock
Throw(t, exc) ==
    /\ texc' = [texc EXCEPT ![t] = exc]
    /\ send_lock' = 0
    /\ Leave(t)

\* the data frame is built
BuildData(t) ==
    /\ tpc[t] = "data"
    /\ IF DataFails(call[t])
       THEN Throw(t, "IndexError")
       ELSE /\ buf' = [buf EXCEPT ![t] = [doc |-> DataBuf(call[t], spid, 0),
                                          by |-> t, no |-> call[t].no]]
            /\ total' = [total EXCEPT ![t] = 0]
            /\ tpc' = [tpc EXCEPT ![t] = "send_data"]
            /\ UNCHANGED << send_lock, texc, call >>
    /\ UNCHANGED << logtbl_explained, spid, broken, wire, emits, locks >>
    /\ UNCHANGED rvars

\* a faulty variant, for comparison: every send starts at buf[0] again
Bytes_Resent(frame, from, n) == [k \in 1..n |-> [m |-> frame, k |-> k]]

\* the bytes buf[from .. from + n - 1] of a frame
Bytes(frame, from, n) == [k \in 1..n |-> [m |-> frame, k |-> from + k - 1]]

Sending(t) == tpc[t] \in {"send_info", "send_data"}

\* after log_raw_direct returns
AfterSend(at) == IF at = "send_info" THEN "data" ELSE "unlock"

\* sent = self.socket.send(buf[total:]), sent > 0; total = total + sent
Send(t) ==
    /\ Sending(t)
    /\ ~broken
    /\ \E sent \in 1..(EncodedLen(buf[t]) - total[t]) :
         /\ wire' = wire \o Bytes(buf[t], total[t] + 1, sent)
         /\ total' = [total EXCEPT ![t] = total[t] + sent]
         /\ tpc' = [tpc EXCEPT ![t] =
                       IF total[t] + sent < EncodedLen(buf[t]) THEN tpc[t]
                       ELSE AfterSend(tpc[t])]
    /\ UNCHANGED << send_lock, logtbl_explained, spid, broken, call, buf, texc,
                    emits, locks >>
    /\ UNCHANGED rvars

\* sent == 0: raise RuntimeError("socket connection broken")
SendBroken(t) ==
    /\ Sending(t)
    /\ broken
    /\ Throw(t, "RuntimeError")
    /\ UNCHANGED << logtbl_explained, spid, broken, wire, emits, locks >>
    /\ UNCHANGED rvars

\* the end of the with statement
Release(t) ==
    /\ tpc[t] = "unlock"
    /\ send_lock' = 0
    /\ Leave(t)
    /\ UNCHANGED << logtbl_explained, spid, broken, wire, texc, emits, locks >>
    /\ UNCHANGED rvars

\* the peer closes the connection
Disconnect ==
    /\ rpc = "off"
    /\ ~broken
    /\ broken' = TRUE
    /\ UNCHANGED << send_lock, logtbl_explained, spid, wire, tpc, call, buf,
                    total, texc, emits, locks >>
    /\ UNCHANGED rvars

(***************************************************************************)
(* The wire read back by the parser.                                       *)
(***************************************************************************)
\* the number of bytes up to the next first byte of a frame
RECURSIVE RunLen(_, _)
RunLen(w, n) ==
    IF n < Len(w) /\ w[n + 1].k # 1 THEN RunLen(w, n + 1) ELSE n

\* the frame the parser reads from the bytes w of one run
WireFrame(w) ==
    [hdr |-> SubSeq(Pack(EncodedLen(w[1].m)), 1, Min(Len(w), PrefixLen)),
     have |-> IF Len(w) > PrefixLen THEN Len(w) - PrefixLen ELSE 0,
     doc |-> w[1].m.doc,
     valid |-> \A i \in 1..Len(w) : w[i].m = w[1].m /\ w[i].k = i,
     by |-> w[1].m.by, no |-> w[1].m.no]

RECURSIVE FramesOfWire(_)
FramesOfWire(w) ==
    IF w = << >> THEN << >>
    ELSE LET n == RunLen(w, 1)
         IN  << WireFrame(SubSeq(w, 1, n)) >>
             \o FramesOfWire(SubSeq(w, n + 1, Len(w)))

\* the analysis has ended and the stream is parsed
StartParse ==
    /\ rpc = "off"
    /\ \A t \in Threads : tpc[t] = "idle"
    /\ fd' = FramesOfWire(wire)
    /\ rpc' = "new"
    /\ UNCHANGED << fdkind, pos, infomap, flags_value, flags_bitmask, pid, out,
                    sink, logged, earlier >>
    /\ UNCHANGED svars

vars == << rvars, svars >>

\* the parser on streams of whole frames
Init == InitRecv(Streams(FrameSet)) /\ SenderInit

Next ==
    \/ IterStart
    \/ EndOfStream
    \/ OnInfo
    \/ BufferRejected
    \/ BufferAccepted
    \/ OnDebug
    \/ UnknownIndex
    \/ ArgCountMismatch
    \/ ConvertError
    \/ OnProcess
    \/ ProcessError
    \/ OnThread
    \/ ThreadError
    \/ OnApiCall

Spec == Init /\ [][Next]_vars

\* the parser on streams that are cut, too large or garbled
InitFraming ==
    InitRecv(Streams(FramingSet) \cup CutStreams(FramingSet)) /\ SenderInit

NextFraming ==
    \/ IterStart
    \/ EndOfStream
    \/ ShortPrefix
    \/ Oversized
    \/ ShortBody
    \/ DecodeError
    \/ OnInfo
    \/ OnDebug
    \/ UnknownIndex
    \/ OnApiCall

SpecFraming == InitFraming /\ [][NextFraming]_vars

\* the parser on streams of info messages with flag tables and calls
InitFlags == InitRecv(Streams(FlagSet)) /\ SenderInit

NextFlags ==
    \/ IterStart
    \/ EndOfStream
    \/ OnInfo
    \/ UnknownIndex
    \/ OnApiCall
    \/ FlagsError

SpecFlags == InitFlags /\ [][NextFlags]_vars

\* the parser on streams of processes, threads and calls
InitProcess == InitRecv(ProcessStreams) /\ SenderInit

NextProcess ==
    \/ IterStart
    \/ EndOfStream
    \/ OnInfo
    \/ UnknownIndex
    \/ OnProcess
    \/ OnThread
    \/ OnApiCall

SpecProcess == InitProcess /\ [][NextProcess]_vars

\* the parser on streams with prefixes that declare less than four bytes
InitShort == InitRecv(Streams(ShortSet)) /\ SenderInit

NextShort ==
    \/ IterStart
    \/ EndOfStream
    \/ DecodeError
    \/ OnInfo
    \/ OnDebug
    \/ UnknownIndex
    \/ OnApiCall

SpecShort == InitShort /\ [][NextShort]_vars

\* the parser iterated more than once over streams of whole frames
NextAgain == Next \/ Reiterate

SpecAgain == Init /\ [][NextAgain]_vars

\* the sender, and then the parser on what was sent
InitWire ==
    /\ SenderInit
    /\ fd = << >>
    /\ fdkind = "ResultHandler"
    /\ pos = 1
    /\ infomap = EmptyMap
    /\ flags_value = EmptyMap
    /\ flags_bitmask = EmptyMap
    /\ pid = PyNone
    /\ rpc = "off"
    /\ out = << >>
    /\ sink = << >>
    /\ logged = << >>
    /\ earlier = << >>

NextWire ==
    \/ \E t \in Threads : CallLoq(t)
    \/ \E t \in Threads : CallNewProcess(t)
    \/ \E t \in Threads : Acquire(t)
    \/ \E t \in Threads : Check(t)
    \/ \E t \in Threads : Explain(t)
    \/ \E t \in Threads : BuildData(t)
    \/ \E t \in Threads : Send(t)
    \/ \E t \in Threads : SendBroken(t)
    \/ \E t \in Threads : Release(t)
    \/ Disconnect
    \/ StartParse
    \/ IterStart
    \/ EndOfStream
    \/ ShortPrefix
    \/ ShortBody
    \/ OnInfo
    \/ UnknownIndex
    \/ OnProcess
    \/ OnApiCall

SpecWire == InitWire /\ [][NextWire]_vars

\* the sender alone, also called with too few arguments
NextEmit ==
    \/ \E t \in Threads : CallLoq(t)
    \/ \E t \in Threads : CallShort(t)
    \/ \E t \in Threads : CallNewProcess(t)
    \/ \E t \in Threads : Acquire(t)
    \/ \E t \in Threads : Check(t)
    \/ \E t \in Threads : Explain(t)
    \/ \E t \in Threads : BuildData(t)
    \/ \E t \in Threads : Send(t)
    \/ \E t \in Threads : SendBroken(t)
    \/ \E t \in Threads : Release(t)
    \/ Disconnect

SpecEmit == InitWire /\ [][NextEmit]_vars

(***************************************************************************)
(* Claims about the sender and the wire, checked under SpecWire.           *)
(***************************************************************************)
IsInfoFrame(m) == "type" \in DOMAIN m.doc /\ m.doc.type = "info"

IsDataFrame(m) == "type" \notin DOMAIN m.doc

\* the positions of the wire where a frame starts
FrameStarts == { i \in 1..Len(wire) : wire[i].k = 1 }

\* the last byte of an info frame for index i is on the wire before position j
InfoWrittenBefore(i, j) ==
    \E p \in 1..(j - 1) :
        /\ IsInfoFrame(wire[p].m)
        /\ wire[p].m.doc.I = i
        /\ wire[p].k = EncodedLen(wire[p].m)

\* C1: every byte of a data frame for an index is written after a whole info
\* frame for that same index, for every index that has a mark in the
\* sender's table (-512 .. 511).
C1_InfoBeforeData ==
    \A j \in 1..Len(wire) :
        (IsDataFrame(wire[j].m) /\ ~NoSlot(wire[j].m.doc.I))
            => InfoWrittenBefore(wire[j].m.doc.I, j)

\* C2: of the frames written to the wire, at most one is an info frame for
\* any one index, however the threads interleave.
C2_InfoAtMostOnce ==
    \A i, j \in FrameStarts :
        (/\ IsInfoFrame(wire[i].m)
         /\ IsInfoFrame(wire[j].m)
         /\ wire[i].m.doc.I = wire[j].m.doc.I) => i = j

\* two threads have each written a whole data frame for one index, after a
\* whole info frame for it
C2_Witness ==
    \E i, j \in 1..Len(wire) :
        /\ IsDataFrame(wire[i].m) /\ IsDataFrame(wire[j].m)
        /\ wire[i].m.by # wire[j].m.by
        /\ wire[i].m.doc.I = wire[j].m.doc.I
        /\ wire[i].k = EncodedLen(wire[i].m)
        /\ wire[j].k = EncodedLen(wire[j].m)
        /\ InfoWrittenBefore(wire[i].m.doc.I, Min(i, j))

\* C3: the bytes of a frame are on the wire in one run, in order, and a
\* frame starts only after the frame before it is whole; the data frame of
\* a call follows its info frame with no byte in between; whenever no
\* thread is inside log_raw_direct and the connection is up, the wire is a
\* concatenation of whole frames.
C3_NoInterleaving ==
    /\ \A i \in 1..Len(wire) :
          IF wire[i].k = 1
          THEN i > 1 =>
                 /\ wire[i - 1].k = EncodedLen(wire[i - 1].m)
                 /\ (wire[i - 1].m.no = wire[i].m.no /\ wire[i - 1].m # wire[i].m)
                       => (IsInfoFrame(wire[i - 1].m) /\ IsDataFrame(wire[i].m))
          ELSE /\ i > 1
               /\ wire[i - 1].m = wire[i].m
               /\ wire[i].k = wire[i - 1].k + 1
    /\ \A i, j \in FrameStarts :
          (i < j /\ wire[i].m.no = wire[j].m.no) =>
              \A p \in i..j : wire[p].m.no = wire[i].m.no
    /\ ((\A t \in Threads : ~Sending(t)) /\ ~broken /\ wire # << >>)
          => wire[Len(wire)].k = EncodedLen(wire[Len(wire)].m)

\* a thread is between two partial sends of its data frame, its info frame
\* whole on the wire, while another thread waits for the lock
C3_Witness ==
    \E t, u \in Threads :
        /\ t # u
        /\ tpc[t] = "send_data"
        /\ total[t] > 0
        /\ total[t] < EncodedLen(buf[t])
        /\ tpc[u] = "lock"
        /\ \E i \in 1..Len(wire) :
              /\ IsInfoFrame(wire[i].m)
              /\ wire[i].m.by = t
              /\ wire[i].k = EncodedLen(wire[i].m)

(***************************************************************************)
(* Claims about the handlers of the receiver, checked under Spec.          *)
(***************************************************************************)
\* frame j of the stream is a data frame
DataAt(j) == IsDataFrame(fd[j])

\* the parser has logged that the stream ended inside a frame
LoggedLacking ==
    \E m \in 1..Len(logged) : logged[m] = "BsonParser lacking data."

\* frame j of the stream is a debug frame
DebugAt(j) == "type" \in DOMAIN fd[j].doc /\ fd[j].doc.type = "debug"

\* the info frames for the index of frame j that come before it
InfosBefore(j) ==
    { p \in 1..(j - 1) : IsInfoFrame(fd[p]) /\ fd[p].doc.I = fd[j].doc.I }

\* the info frame that describes frame j: the last one before it
LatestInfo(j) ==
    CHOOSE p \in InfosBefore(j) : \A q \in InfosBefore(j) : q <= p

\* the positions whose record has been yielded
YieldedAt == { out[k].at : k \in 1..Len(out) }

\* the parser is about to read a data frame whose index is not in infomap
UndescribedNext ==
    /\ rpc = "loop"
    /\ pos <= Len(fd)
    /\ DataAt(pos)
    /\ fd[pos].doc.I \notin DOMAIN infomap

\* C4: a data frame whose index is not in the schema cache yields no record
\* and leaves infomap, the flag tables, pid and the buffer sink as they are;
\* the parser goes on to the next frame, so at the end of a stream every
\* debug frame, also one after such a data frame, has yielded its record.
C4_UndescribedSkipped ==
    /\ [][UndescribedNext =>
            /\ out' = out
            /\ infomap' = infomap
            /\ flags_value' = flags_value
            /\ flags_bitmask' = flags_bitmask
            /\ pid' = pid
            /\ sink' = sink
            /\ rpc' = "loop"
            /\ pos' = pos + 1]_vars
    /\ [](rpc = "returned" =>
            \A j \in 1..Len(fd) :
                DebugAt(j) => j \in YieldedAt)

\* a record was yielded from a frame that follows a data frame with no info
\* frame for its index before it
C4_Witness ==
    \E k \in 1..Len(out) :
        \E j \in 1..(out[k].at - 1) : DataAt(j) /\ InfosBefore(j) = {}

\* the parser is about to read a data frame whose number of values is not
\* the number of names of its descriptor
MiscountedNext ==
    /\ rpc = "loop"
    /\ pos <= Len(fd)
    /\ DataAt(pos)
    /\ fd[pos].doc.I \in DOMAIN infomap
    /\ Len(fd[pos].doc.args) # Len(infomap[fd[pos].doc.I].argnames)

\* C5: a data frame with another number of values than its descriptor has
\* names yields no record and changes nothing of the parser but the read
\* position, which moves to the next frame.
C5_MiscountSkipped ==
    [][MiscountedNext =>
            /\ out' = out
            /\ infomap' = infomap
            /\ flags_value' = flags_value
            /\ flags_bitmask' = flags_bitmask
            /\ pid' = pid
            /\ sink' = sink
            /\ rpc' = "loop"
            /\ pos' = pos + 1]_vars

\* a record was yielded from a frame that follows a data frame whose
\* descriptor has another number of names than the frame has values
C5_Witness ==
    \E k \in 1..Len(out) :
        \E j \in 1..(out[k].at - 1) :
            /\ DataAt(j)
            /\ InfosBefore(j) # {}
            /\ Len(fd[j].doc.args) # Len(fd[LatestInfo(j)].doc.args)

\* frame j of the stream is a buffer frame
BufferAt(j) == "type" \in DOMAIN fd[j].doc /\ fd[j].doc.type = "buffer"

\* the checksum of buffer frame j is the sha1 of its payload
Verified(j) == fd[j].doc.checksum = Sha1Hex(fd[j].doc.buffer)

\* the entries of the sink written for frame j
StoredFor(j) == { s \in 1..Len(sink) : sink[s].at = j }

\* buffer frame j is in the sink once, under its checksum, with its payload
StoredOnce(j) ==
    /\ Cardinality(StoredFor(j)) = 1
    /\ \A s \in StoredFor(j) :
          sink[s].path = fd[j].doc.checksum /\ sink[s].data = fd[j].doc.buffer

\* C9 as stated: of the buffer frames read so far, one whose checksum does
\* not match is not in the sink, one whose checksum matches is in the sink
\* exactly once under its checksum; none has yielded a record, and none has
\* ended the stream.
C9_MatchingAlwaysStored ==
    /\ \A j \in 1..(pos - 1) :
          BufferAt(j) =>
              /\ j \notin YieldedAt
              /\ IF Verified(j) THEN StoredOnce(j) ELSE StoredFor(j) = {}
    /\ (rpc = "returned" => pos = Len(fd) + 1)

\* C9, amended: of the buffer frames read so far, one whose checksum does
\* not match is not in the sink; one whose checksum matches is in the sink
\* exactly once under its checksum when the parser reads from the live
\* ResultHandler, and not in the sink when it reads from anything else;
\* none has yielded a record, and none has ended the stream.
C9_BufferIntegrity ==
    /\ \A j \in 1..(pos - 1) :
          BufferAt(j) =>
              /\ j \notin YieldedAt
              /\ IF Verified(j) /\ fdkind = "ResultHandler"
                 THEN StoredOnce(j)
                 ELSE StoredFor(j) = {}
    /\ (rpc = "returned" => pos = Len(fd) + 1)

\* a buffer with a wrong checksum was dropped, one with the right checksum
\* was stored, and a later frame has yielded its record
C9_Witness ==
    \E i, j \in 1..(pos - 1) :
        /\ BufferAt(i) /\ ~Verified(i)
        /\ BufferAt(j) /\ Verified(j) /\ StoredOnce(j)
        /\ \E k \in 1..Len(out) : out[k].at > i /\ out[k].at > j

\* the values of data frame j converted as info frame p says, by position
ConvertedAt(j, p) ==
    [i \in 1..Len(fd[j].doc.args) |->
        Convert(Converters(fd[p].doc.args)[i], fd[j].doc.args[i])]

\* C10: an apicall record yielded from data frame j, described by info frame
\* p, has the name and category of p; its status and return value are the
\* converted values of j at the positions p names is_success and retval; the
\* keys of its arguments are the other names of p, each with the converted
\* value of j at the position of the name.
C10_ApiCallFromDescriptor ==
    \A k \in 1..Len(out) :
        out[k].rec.type = "apicall" =>
            LET j == out[k].at
                p == LatestInfo(j)
                names == ArgNames(fd[p].doc.args)
                vals == ConvertedAt(j, p)
                r == out[k].rec
            IN  /\ InfosBefore(j) # {}
                /\ Len(fd[j].doc.args) = Len(names)
                /\ r.api = fd[p].doc.name
                /\ r.category = PyUni(fd[p].doc.category)
                /\ DOMAIN r.arguments =
                      { names[i] : i \in 1..Len(names) }
                          \ {"is_success", "retval"}
                /\ \A i \in 1..Len(names) :
                      CASE names[i] = "is_success" -> r.status = vals[i]
                        [] names[i] = "retval" -> r.return_value = vals[i]
                        [] OTHER -> r.arguments[names[i]] = vals[i]

\* an apicall record whose descriptor names a pointer argument and whose
\* values are negative numbers, so that every converter changes its value
C10_Witness ==
    \E k \in 1..Len(out) :
        /\ out[k].rec.type = "apicall"
        /\ out[k].rec.api = "NtClose"
        /\ \E i \in 1..Len(fd[out[k].at].doc.args) :
              /\ fd[out[k].at].doc.args[i].ty = "int"
              /\ fd[out[k].at].doc.args[i].hi < 0
              /\ Converters(fd[LatestInfo(out[k].at)].doc.args)[i] = "p"

(***************************************************************************)
(* Claims about the framing, checked under SpecFraming.                    *)
(***************************************************************************)
\* all 4 bytes of the length prefix of frame j are in the stream
PrefixWhole(j) == Len(fd[j].hdr) = PrefixLen

\* the length frame j declares
Declared(j) == Unpack(fd[j].hdr)

\* every byte of frame j is in the stream
WholeAt(j) == PrefixWhole(j) /\ fd[j].have = Declared(j) - PrefixLen

\* frame j declares more than the largest length allowed
OversizedAt(j) == PrefixWhole(j) /\ Declared(j) > MAX_MESSAGE_LENGTH

\* the stream is well-formed frames up to a cut: no frame is too large or
\* garbled, and only the last one may lack bytes
OnlyCut ==
    /\ \A j \in 1..Len(fd) : fd[j].valid /\ ~OversizedAt(j)
    /\ \A j \in 1..(Len(fd) - 1) : WholeAt(j)

\* whole frame j is one that yields a record: a debug frame, or a data frame
\* with as many values as the last info frame for its index has names
RecordAt(j) ==
    \/ DebugAt(j)
    \/ /\ DataAt(j)
       /\ InfosBefore(j) # {}
       /\ Len(fd[j].doc.args) = Len(fd[LatestInfo(j)].doc.args)

\* C6: no record is ever yielded from a frame that lacks bytes, and no
\* exception leaves the parser; once the parser has ended on a stream of
\* well-formed frames cut at any place, the records yielded are those of
\* the whole frames, one each and in their order; the parser has read to
\* the end of a stream cut between frames, with nothing logged about
\* lacking data, and has stopped at the frame that lacks bytes of a stream
\* cut inside one.
C6_CutStream ==
    /\ \A k \in 1..Len(out) : WholeAt(out[k].at)
    /\ rpc # "raised"
    /\ (rpc = "returned" /\ OnlyCut) =>
          /\ YieldedAt = { j \in 1..Len(fd) : WholeAt(j) /\ RecordAt(j) }
          /\ \A k, l \in 1..Len(out) : k < l => out[k].at < out[l].at
          /\ IF fd # << >> /\ ~WholeAt(Len(fd))
             THEN pos = Len(fd) /\ LoggedLacking
             ELSE pos = Len(fd) + 1 /\ ~LoggedLacking

\* the parser has ended on a stream cut inside the body of its last frame,
\* after yielding the record of a whole frame
C6_Witness ==
    /\ rpc = "returned"
    /\ OnlyCut
    /\ fd # << >>
    /\ PrefixWhole(Len(fd))
    /\ fd[Len(fd)].have > 0
    /\ ~WholeAt(Len(fd))
    /\ out # << >>

\* no frame before frame j stops the parser
CleanBefore(j) ==
    \A i \in 1..(j - 1) : WholeAt(i) /\ fd[i].valid /\ ~OversizedAt(i)

\* C7: no record is yielded from a frame that declares more than
\* MAX_MESSAGE_LENGTH bytes nor from any frame after it, and the parser ends
\* at that frame; a whole frame that declares exactly MAX_MESSAGE_LENGTH
\* bytes is read and has yielded its record when the parser ends.
C7_SizeLimit ==
    /\ \A j \in 1..Len(fd) :
          OversizedAt(j) =>
              /\ \A k \in 1..Len(out) : out[k].at < j
              /\ pos <= j
              /\ (rpc = "returned" /\ CleanBefore(j)) => pos = j
    /\ \A j \in 1..Len(fd) :
          (/\ rpc = "returned"
           /\ WholeAt(j)
           /\ Declared(j) = MAX_MESSAGE_LENGTH
           /\ fd[j].valid
           /\ DebugAt(j)
           /\ CleanBefore(j)) => j \in YieldedAt

\* the parser has ended at a frame one byte over the limit, after yielding
\* the record of a frame of exactly the limit
C7_Witness ==
    /\ rpc = "returned"
    /\ \E j \in 1..Len(fd) :
          /\ OversizedAt(j)
          /\ Declared(j) = MAX_MESSAGE_LENGTH + 1
          /\ pos = j
          /\ \E k \in 1..Len(out) :
                Declared(out[k].at) = MAX_MESSAGE_LENGTH

(***************************************************************************)
(* Claims about the records of a written stream, checked under SpecWire.   *)
(***************************************************************************)
\* C8: the records are yielded in the order of their frames on the wire,
\* which is the order in which the calls that wrote them took the send
\* lock; once the parser has ended, the frames that have yielded a record
\* are the whole debug frames and the whole data frames that match their
\* descriptor, one record each.
C8_YieldOrder ==
    /\ \A k, l \in 1..Len(out) :
          k < l => /\ out[k].at < out[l].at
                   /\ fd[out[k].at].no < fd[out[l].at].no
    /\ \A i, j \in 1..Len(fd) : i < j => fd[i].no <= fd[j].no
    /\ rpc = "returned" =>
          YieldedAt = { j \in 1..Len(fd) : WholeAt(j) /\ RecordAt(j) }

\* two records have been yielded whose frames were written by two threads
C8_Witness ==
    \E k, l \in 1..Len(out) :
        /\ k < l
        /\ fd[out[k].at].by # fd[out[l].at].by

(***************************************************************************)
(* Claims about the flags of api calls, checked under SpecFlags.           *)
(***************************************************************************)
\* the info frames before frame j, for the api named n, that carry table k
TablesBefore(j, n, k) ==
    { p \in 1..(j - 1) :
        /\ IsInfoFrame(fd[p])
        /\ fd[p].doc.name = n
        /\ k \in DOMAIN fd[p].doc }

\* the last of them
LatestTable(j, n, k) ==
    CHOOSE p \in TablesBefore(j, n, k) : \A q \in TablesBefore(j, n, k) : q <= p

\* value is the value of one of the pairs
ExactMatch(pairs, value) == \E i \in 1..Len(pairs) : pairs[i][1] = value

\* C11: an apicall record whose name has a flags_bitmask table registered
\* has, for every argument of that table which no registered value table
\* resolves by exact match, the '|'-join of the symbols of the pairs with
\* (value & mask) == mask in its flags, the empty string when there is none;
\* whether a flags_value table is registered for the name makes no
\* difference.
C11_BitmaskResolved ==
    \A k \in 1..Len(out) :
        LET j == out[k].at
            r == out[k].rec
        IN  (r.type = "apicall" /\ TablesBefore(j, r.api, "flags_bitmask") # {})
            => LET masks ==
                     fd[LatestTable(j, r.api, "flags_bitmask")].doc.flags_bitmask
                   exact(a) ==
                     /\ TablesBefore(j, r.api, "flags_value") # {}
                     /\ LET values ==
                              fd[LatestTable(j, r.api, "flags_value")]
                                  .doc.flags_value
                        IN  /\ a \in DOMAIN values
                            /\ ExactMatch(values[a], FlagValue(r.arguments[a]))
               IN  \A a \in DOMAIN masks :
                      ~exact(a) =>
                          /\ a \in DOMAIN r.flags
                          /\ r.flags[a] =
                               Join(Matching(masks[a],
                                             FlagValue(r.arguments[a])))

\* C19: an apicall record has the name and the category of the latest info
\* frame for its index, and when that frame carries no flag table the
\* tables of earlier info frames do not count: the flags are empty.
C19_LatestDescriptorOnly ==
    \A k \in 1..Len(out) :
        out[k].rec.type = "apicall" =>
            LET d == fd[LatestInfo(out[k].at)].doc
            IN  /\ out[k].rec.api = d.name
                /\ out[k].rec.category = PyUni(d.category)
                /\ ("flags_value" \notin DOMAIN d
                        /\ "flags_bitmask" \notin DOMAIN d)
                       => out[k].rec.flags = EmptyMap

(***************************************************************************)
(* Claims about process, thread and pid, checked under SpecProcess.        *)
(***************************************************************************)
\* the name of the descriptor that record k was decoded with
NameOf(k) == fd[LatestInfo(out[k].at)].doc.name

\* record k was yielded from a data frame with the descriptor name n
FromFrameOf(k, n) == DataAt(out[k].at) /\ NameOf(k) = n

\* the pid of the last process record yielded before record k, None if
\* there is none
PidBefore(k) ==
    LET ps == { i \in 1..(k - 1) : out[i].rec.type = "process" }
    IN  IF ps = {} THEN PyNone
        ELSE out[CHOOSE i \in ps : \A q \in ps : q <= i].rec.pid

FieldOf(k, n) ==
    LET j == out[k].at
        p == LatestInfo(j)
        names == ArgNames(fd[p].doc.args)
    IN  ConvertedAt(j, p)[CHOOSE i \in 1..Len(names) : names[i] = n]

\* record k comes from a process frame whose descriptor has the argument n
ProcessWith(k, n) ==
    /\ FromFrameOf(k, "__process__")
    /\ \E i \in 1..Len(fd[LatestInfo(out[k].at)].doc.args) :
          ArgNames(fd[LatestInfo(out[k].at)].doc.args)[i] = n

\* the four fields of record k that the claim names
ProcessFields(k) ==
    [pid |-> out[k].rec.pid, ppid |-> out[k].rec.ppid,
     first_seen |-> out[k].rec.first_seen,
     process_name |-> out[k].rec.process_name]

\* the values of the five fields, read under the names given
SameValues(k, l) ==
    /\ FieldOf(k, "time_low") = FieldOf(l, "TimeLow")
    /\ FieldOf(k, "time_high") = FieldOf(l, "TimeHigh")
    /\ FieldOf(k, "pid") = FieldOf(l, "ProcessIdentifier")
    /\ FieldOf(k, "ppid") = FieldOf(l, "ParentProcessIdentifier")
    /\ FieldOf(k, "module_path") = FieldOf(l, "ModulePath")

\* C17: a process frame with the snake_case fields and one with the
\* PascalCase fields and equal values decode to records with the same pid,
\* ppid, first_seen and process_name, and the last of them leaves the
\* parser's pid at that same value.
C17_SnakeAsPascal ==
    \A k, l \in 1..Len(out) :
        (ProcessWith(k, "time_low") /\ ProcessWith(l, "TimeLow")
            /\ SameValues(k, l)) =>
            /\ ProcessFields(k) = ProcessFields(l)
            /\ out[k].rec.pid = FieldOf(k, "pid")
            /\ (k = Len(out) \/ l = Len(out))
                   => pid = FieldOf(l, "ProcessIdentifier")

\* a snake_case and a PascalCase process frame with equal values, whose pid
\* differs from the parent's, were both decoded
C17_Witness ==
    \E k, l \in 1..Len(out) :
        /\ ProcessWith(k, "time_low") /\ ProcessWith(l, "TimeLow")
        /\ SameValues(k, l)
        /\ out[k].rec.pid # out[k].rec.ppid

\* the message at the read position is a process message of a known layout
\* with all the fields of the layout, whose values convert
ProcessNext ==
    /\ rpc = "loop" /\ pos <= Len(fd)
    /\ DataAt(pos)
    /\ InfosBefore(pos) # {}
    /\ LET p == LatestInfo(pos)
           names == ArgNames(fd[p].doc.args)
           has(n) == \E i \in 1..Len(names) : names[i] = n
       IN  /\ fd[p].doc.name = "__process__"
           /\ Len(names) = Len(fd[pos].doc.args)
           /\ \/ has("TimeLow") \/ has("time_low") \/ has("TimeStamp")

\* C18: only a process message changes the parser's pid, and then a process
\* record is yielded with that pid; the pid is None until the first process
\* record and afterwards the pid of the last one; every apicall record has
\* the pid of the last process record yielded before it, None if there is
\* none.
C18_PidFollowsProcess ==
    /\ [][pid' # pid =>
             /\ ProcessNext
             /\ Len(out') = Len(out) + 1
             /\ out'[Len(out')].rec.type = "process"
             /\ out'[Len(out')].rec.pid = pid']_vars
    /\ [](/\ pid = PidBefore(Len(out) + 1)
          /\ \A k \in 1..Len(out) :
                out[k].rec.type = "apicall" => out[k].rec.pid = PidBefore(k))

\* an apicall record was yielded after a process record
C18_Witness ==
    \E k \in 1..Len(out) :
        /\ out[k].rec.type = "apicall"
        /\ PidBefore(k) # PyNone

(***************************************************************************)
(* Claims about the ways the parser ends.                                  *)
(***************************************************************************)
\* frame j is a __process__ data frame whose descriptor has the names of
\* none of the three layouts
UnknownLayoutAt(j) ==
    /\ DataAt(j)
    /\ InfosBefore(j) # {}
    /\ fd[LatestInfo(j)].doc.name = "__process__"
    /\ Len(fd[j].doc.args) = Len(fd[LatestInfo(j)].doc.args)
    /\ \A i \in 1..Len(fd[LatestInfo(j)].doc.args) :
          ArgNames(fd[LatestInfo(j)].doc.args)[i]
              \notin {"TimeLow", "time_low", "TimeStamp"}

\* C13: a process frame of none of the three known layouts ends the record
\* sequence in the normal way: no exception leaves the parser at it.
C13_FatalEndsSequence ==
    (rpc = "raised" /\ pos <= Len(fd)) => ~UnknownLayoutAt(pos)

\* frame j is whole, within the size limit, and bson_decode rejects it
GarbledAt(j) == WholeAt(j) /\ ~OversizedAt(j) /\ ~fd[j].valid

\* C14: the records yielded stay yielded, in their places; no record is
\* yielded from a frame that fails to decode nor from any frame after it,
\* and the parser does not read past it; when the parser has ended at such
\* a frame, the records are those of the frames before it; once the parser
\* has ended nothing is yielded any more.
C14_StopOnDecodeError ==
    /\ [][/\ Len(out') >= Len(out)
          /\ \A k \in 1..Len(out) : out'[k] = out[k]
          /\ rpc = "returned" => (out' = out /\ rpc' = rpc)]_vars
    /\ [](\A j \in 1..Len(fd) :
            GarbledAt(j) =>
                /\ \A k \in 1..Len(out) : out[k].at < j
                /\ pos <= j
                /\ (rpc = "returned" /\ CleanBefore(j)) =>
                      /\ pos = j
                      /\ YieldedAt = { i \in 1..(j - 1) : RecordAt(i) })

\* the parser has ended at a frame that fails to decode, with a record
\* yielded before it and a well-formed debug frame after it
C14_Witness ==
    /\ rpc = "returned"
    /\ pos < Len(fd)
    /\ GarbledAt(pos)
    /\ out # << >>
    /\ WholeAt(Len(fd)) /\ fd[Len(fd)].valid /\ DebugAt(Len(fd))

(***************************************************************************)
(* Claims about one call of the sender, checked under SpecEmit.            *)
(***************************************************************************)
\* the whole frames of kind info (TRUE) or data (FALSE) that call number n
\* has on the wire w
FramesOfCall(w, n, info) ==
    { i \in 1..Len(w) :
        /\ w[i].m.no = n
        /\ IsInfoFrame(w[i].m) = info
        /\ w[i].k = EncodedLen(w[i].m) }

\* thread t is in a call of loq whose info frame meets an IndexError: the
\* index has no entry in the table, or args lacks a name that fmt announces
InfoIndexError(t) ==
    /\ tpc[t] \notin {"idle", "lock"}
    /\ NoSlot(call[t].index) \/ InfoFails(call[t])
    /\ FramesOfCall(wire, call[t].no, TRUE) = {}

\* C15: a call of loq whose info frame met an IndexError returns, while the
\* connection is up, only with its data frame written, once.
C15_DataStillWritten ==
    [][\A t \in Threads :
          (InfoIndexError(t) /\ tpc'[t] = "idle" /\ ~broken)
              => Cardinality(FramesOfCall(wire', call[t].no, FALSE)) = 1]_vars

(***************************************************************************)
(* Claims about the frames the sender builds, checked under SpecWire.      *)
(***************************************************************************)
\* C16: the category of every info frame written is one of network,
\* filesystem, process and unknown.
C16_CategoryNames ==
    \A i \in FrameStarts :
        IsInfoFrame(wire[i].m) =>
            wire[i].m.doc.category
                \in {"network", "filesystem", "process", "unknown"}

\* the bytes of frame m on the wire, in the order they were written
WrittenOf(m) == SelectSeq(wire, LAMBDA b : b.m = m)

\* the bytes 1..n of frame m
FirstBytes(m, n) == [k \in 1..n |-> [m |-> m, k |-> k]]

\* thread t is in log_raw_direct with the buffer m
WritingOf(t, m) == Sending(t) /\ buf[t] = m

\* C20: log_raw_direct ends.  While a thread is in the loop fewer than
\* len(buf) bytes are sent, the bytes of its buffer on the wire are exactly
\* the first total bytes in order, and a step is possible; each step of the
\* loop either hands the next sent >= 1 bytes to the socket, raising total by
\* sent, and returns as soon as total reaches len(buf), or, when the send
\* reports zero, raises RuntimeError and writes nothing.  While the
\* connection is up, a buffer that is no longer being written is on the
\* wire whole.
C20_WriteLoop ==
    /\ [][\A t \in Threads :
             (Sending(t) /\ << tpc'[t], total'[t] >> # << tpc[t], total[t] >>)
             => \/ /\ ~broken
                   /\ total'[t] > total[t] \/ ~Sending(t)'
                   /\ \E sent \in 1..(EncodedLen(buf[t]) - total[t]) :
                         /\ wire' = wire \o
                                SubSeq(FirstBytes(buf[t], EncodedLen(buf[t])),
                                       total[t] + 1, total[t] + sent)
                         /\ IF total[t] + sent < EncodedLen(buf[t])
                            THEN /\ total'[t] = total[t] + sent
                                 /\ tpc'[t] = tpc[t] /\ buf'[t] = buf[t]
                            ELSE tpc'[t] = AfterSend(tpc[t])
                \/ /\ broken
                   /\ wire' = wire
                   /\ texc'[t] = "RuntimeError"
                   /\ ~Sending(t)']_vars
    /\ [](\A t \in Threads :
             Sending(t) =>
                 /\ total[t] < EncodedLen(buf[t])
                 /\ WrittenOf(buf[t]) = FirstBytes(buf[t], total[t])
                 /\ ENABLED (Send(t) \/ SendBroken(t)))
    /\ [](\A i \in 1..Len(wire) :
             LET m == wire[i].m
             IN  \/ \E t \in Threads : WritingOf(t, m)
                 \/ broken
                 \/ WrittenOf(m) = FirstBytes(m, EncodedLen(m)))

\* one buffer is on the wire whole, and a thread whose send reported zero
\* after a part of its buffer was written has raised RuntimeError
C20_Witness ==
    /\ \E i \in 1..Len(wire) :
          WrittenOf(wire[i].m) = FirstBytes(wire[i].m, EncodedLen(wire[i].m))
    /\ \E t \in Threads :
          /\ texc[t] = "RuntimeError"
          /\ \E i \in 1..Len(wire) :
                /\ wire[i].m.by = t
                /\ Len(WrittenOf(wire[i].m)) < EncodedLen(wire[i].m)

(***************************************************************************)
(* Claims about prefixes that declare less than four bytes, checked under  *)
(* SpecShort.                                                              *)
(***************************************************************************)
\* frame j declares a length below the four bytes of its own prefix
ShortAt(j) == PrefixWhole(j) /\ Declared(j) < PrefixLen

\* C21: a frame that declares a length below 4 ends the stream: no record is
\* yielded for it or for anything after it, and the read cursor stays within
\* the stream.
C21_ShortLengthFatal ==
    /\ pos <= Len(fd) + 1
    /\ \A j \in 1..Len(fd) :
          ShortAt(j) => \A k \in 1..Len(out) : out[k].at < j

(***************************************************************************)
(* Claims about the send lock and the marks, checked under SpecEmit.       *)
(***************************************************************************)
\* thread t is inside the with statement of loq
InEmit(t) == tpc[t] \notin {"idle", "lock"}

\* C22: the lock is released whenever an emit ends, with or without a
\* failure.  The holder of the lock is always a thread inside the with
\* statement; the step with which a thread leaves it, also by RuntimeError
\* or IndexError, frees the lock; and a thread waiting for the lock while no
\* thread is inside can take it.
C22_LockReleased ==
    /\ [][\A t \in Threads :
             (InEmit(t) /\ ~InEmit(t)') => (send_lock = t /\ send_lock' = 0)]_vars
    /\ [](/\ send_lock # 0 => InEmit(send_lock)
          /\ \A t \in Threads :
                (tpc[t] = "lock" /\ \A u \in Threads : ~InEmit(u))
                    => ENABLED Acquire(t))

\* a thread has left loq with an exception and another thread took the lock
\* after it
C22_Witness ==
    \E t, u \in Threads :
        /\ t # u
        /\ texc[t] \in {"RuntimeError", "IndexError"}
        /\ tpc[t] = "idle"
        /\ send_lock = u

\* the indices loq is called with that have a mark in the table
MarkedIndices ==
    { c.index : c \in LoqCalls \cup {ProcessCall(1234, 1, PyStr("/bin/ls"))} }
        \ { i \in -TableSize..TableSize : NoSlot(i) }

\* C23: an emit for an index sets the mark of that index only: the step that
\* marks the index of a call as described leaves every other index that loq
\* is called with, -1 and 511 among them, as described or not as it was.
C23_OwnMarkOnly ==
    [][\A t \in Threads :
          (tpc[t] = "explain" /\ tpc'[t] # "explain") =>
              \A i \in MarkedIndices \ {call[t].index} :
                  Unexplained(logtbl_explained', i)
                      = Unexplained(logtbl_explained, i)]_vars

(***************************************************************************)
(* Claims about iterating a parser again, checked under SpecAgain.         *)
(***************************************************************************)
\* the records of a sequence of yields
Records(o) == [k \in 1..Len(o) |-> o[k].rec]

\* C24: a further iteration of the same parser over the same stream yields
\* the records the iteration before it yielded: when it has ended, its
\* records are those of the earlier one.
C24_SamePassAgain ==
    (rpc \in {"returned", "raised"} /\ earlier # << >>)
        => Records(out) = Records(earlier[Len(earlier)])
=============================================================================
